---- MODULE Spec2Model ----
(***************************************************************************)
(* Model of the API views of msgvis (src/msgvis/apps/api/views.py): the    *)
(* data-table query planner (DataTableView.post), the keyword              *)
(* auto-complete (KeywordView.get), the dataset and group look-ups, and    *)
(* the action-history log every handler writes through add_history.        *)
(*                                                                         *)
(* Python values are encoded so that TLC can compare them:                 *)
(*   - an optional value is None (<<>>) or Some(v) (<<v>>);                *)
(*   - a string (a level, a search key) is a sequence of character codes,  *)
(*     so that prefix tests, case folding and ordering are computed.       *)
(***************************************************************************)
EXTENDS Integers, Sequences, FiniteSets, TLC

VARIABLES
    users,      \* ids of the rows of the User table
    store,      \* rows of PrecalcCategoricalDistribution
    corpus,     \* rows of the message table
    datasets,   \* ids of the rows of the Dataset table
    groups,     \* rows of the Group table
    history,    \* rows of ActionHistory, in insertion order
    user,       \* request.user.id of the request being served
    request,    \* the raw request being served
    pc,         \* position of the handler serving the request
    touched,    \* tables the handler has read or written so far
    args,       \* the local variables of DataTableView.post after line 144
    calls,      \* the query paths invoked for this request, in order
    response,   \* the Response returned, None while the handler runs
    session     \* what the client has collected from earlier responses

vars == <<users, store, corpus, datasets, groups, history, user, request,
          pc, touched, args, calls, response, session>>

----------------------------------------------------------------------------
(* Bounds of the model. *)

\* largest count of one level in the corpus
MaxCount == 2
\* page and page_size range over -1 .. MaxPage
MaxPage == 2

----------------------------------------------------------------------------
(* Python values. *)

None == <<>>
Some(v) == <<v>>

\* dict.get(key, default): the value when the key is present
Get(opt, default) == IF opt = None THEN default ELSE opt[1]

\* truth value of an optional integer: None and 0 are false
Truthy(opt) == opt # None /\ opt[1] # 0

Max(a, b) == IF a >= b THEN a ELSE b
Min(a, b) == IF a <= b THEN a ELSE b

\* a string is the sequence of its character codes: "A" is 65, "a" is 97,
\* "b" is 98, " " is 32, "1" is 49
\* unicode.lower() of one character
LowerChar(c) == IF c >= 65 /\ c <= 90 THEN c + 32 ELSE c
Lower(s) == [i \in 1..Len(s) |-> LowerChar(s[i])]

\* the natural order of strings: lexicographic on character codes
RECURSIVE StrLess(_, _)
StrLess(a, b) ==
    IF b = <<>> THEN FALSE
    ELSE IF a = <<>> THEN TRUE
    ELSE IF a[1] # b[1] THEN a[1] < b[1]
    ELSE StrLess(Tail(a), Tail(b))

\* level__istartswith = prefix
IStartsWith(level, prefix) ==
    /\ Len(prefix) <= Len(level)
    /\ SubSeq(Lower(level), 1, Len(prefix)) = Lower(prefix)

\* the set of elements of a sequence
Range(s) == {s[i] : i \in 1..Len(s)}

----------------------------------------------------------------------------
(* The data model: dimensions, messages, precomputed distribution rows. *)

\* program constants
DefaultPageSize == 100
KeywordLimit == 20

\* the dimension catalog and the kind of each dimension
Kind == [type |-> "categorical", words |-> "categorical", time |-> "temporal"]
Dimensions == {"type", "words", "time"}

\* Dimension.is_categorical()
is_categorical(d) == Kind[d] = "categorical"

\* the bucketing function of a dimension: identity on a categorical value,
\* truncation of a timestamp <<day, hour>> to its day
Bucket(d, v) == IF Kind[d] = "temporal" THEN SubSeq(v, 1, 1) ELSE v

\* the precomputed distribution of a corpus: one row per dataset,
\* categorical dimension and level that occurs, with its message count
Distribution(msgs) ==
    { [dataset_id |-> m.dataset, dimension_key |-> d, level |-> m.vals[d],
       count |-> Cardinality({n \in msgs : /\ n.dataset = m.dataset
                                           /\ n.vals[d] = m.vals[d]})] :
        m \in msgs, d \in {x \in Dimensions : is_categorical(x)} }

\* a filter tests one raw item
Matches(f, m) == Bucket(f.dimension, m.vals[f.dimension]) = f.value

\* page-th slice of page_size elements, 1-indexed; no page is the first page
Paginate(seq, page, page_size) ==
    LET p == Get(page, 1)
        first == (p - 1) * page_size + 1
    IN SubSeq(seq, first, Min(Len(seq), first + page_size - 1))

\* rows ranked by descending count, ties broken by the level's natural order
RankedBefore(a, b) ==
    \/ a.count > b.count
    \/ a.count = b.count /\ StrLess(a.level, b.level)

RECURSIVE Ranked(_)
Ranked(rows) ==
    IF rows = {} THEN <<>>
    ELSE LET top == CHOOSE r \in rows : \A o \in rows \ {r} : RankedBefore(r, o)
         IN <<top>> \o Ranked(rows \ {top})

\* Dataset.get_precalc_distribution
get_precalc_distribution(rows, dataset, dimension, search_key, page, page_size, mode) ==
    LET sel == {r \in rows : /\ r.dataset_id = dataset
                             /\ r.dimension_key = dimension
                             /\ \/ search_key = None
                                \/ IStartsWith(r.level, search_key[1])}
        paged == Paginate(Ranked(sel), page, page_size)
    IN [table |-> [i \in 1..Len(paged) |->
                      [vals |-> <<paged[i].level>>, value |-> paged[i].count,
                       group |-> None]],
        domains |-> <<[i \in 1..Len(paged) |-> paged[i].level]>>]

\* ascending order of cell keys: by the first dimension, then the second
RECURSIVE KeyLess(_, _)
KeyLess(a, b) ==
    IF a = <<>> \/ b = <<>> THEN FALSE
    ELSE IF a[1] # b[1] THEN StrLess(a[1], b[1])
    ELSE KeyLess(Tail(a), Tail(b))

RECURSIVE SortKeys(_)
SortKeys(keys) ==
    IF keys = {} THEN <<>>
    ELSE LET k == CHOOSE x \in keys : \A y \in keys \ {x} : KeyLess(x, y)
         IN <<k>> \o SortKeys(keys \ {k})

RECURSIVE SortStrs(_)
SortStrs(strs) ==
    IF strs = {} THEN <<>>
    ELSE LET k == CHOOSE x \in strs : \A y \in strs \ {x} : StrLess(x, y)
         IN <<k>> \o SortStrs(strs \ {k})

\* the working set: every filter holds, and not every exclude holds
WorkingSet(msgs, dataset, filters, exclude) ==
    {m \in msgs : /\ m.dataset = dataset
                  /\ \A i \in 1..Len(filters) : Matches(filters[i], m)
                  /\ \/ exclude = <<>>
                     \/ \E i \in 1..Len(exclude) : ~Matches(exclude[i], m)}

CellKey(dims, m) == [i \in 1..Len(dims) |-> Bucket(dims[i], m.vals[dims[i]])]

\* the cells of one working set, in ascending key order
Cells(dims, work, tag) ==
    LET keys == SortKeys({CellKey(dims, m) : m \in work})
    IN [i \in 1..Len(keys) |->
           [vals |-> keys[i],
            value |-> Cardinality({m \in work : CellKey(dims, m) = keys[i]}),
            group |-> tag]]

RECURSIVE GroupCells(_, _, _)
GroupCells(dims, work, grps) ==
    IF grps = <<>> THEN <<>>
    ELSE LET g == Head(grps)
             sub == {m \in work : \A i \in 1..Len(g.filters) :
                                      Matches(g.filters[i], m)}
         IN Cells(dims, sub, Some(g.id)) \o GroupCells(dims, work, Tail(grps))

\* DataTable(*dimensions).generate
generate(msgs, dims, mode, dataset, filters, exclude, page_size, page, search_key, grps) ==
    LET work == WorkingSet(msgs, dataset, filters, exclude)
        cells == IF grps = None THEN Cells(dims, work, None)
                 ELSE GroupCells(dims, work, grps[1])
    IN [table |-> Paginate(cells, page, page_size),
        domains |-> [i \in 1..Len(dims) |->
                        SortStrs({cells[j].vals[i] : j \in 1..Len(cells)})]]

----------------------------------------------------------------------------
(* add_history and DataTableView.post. *)

\* json.dumps(contents): the serialised text of the contents
JsonDumps(contents) == [json |-> contents]

\* add_history(user, type, contents): the row saved
HistoryRow(uid, type, contents) ==
    [type |-> type, contents |-> JsonDumps(contents), from_server |-> TRUE,
     owner |-> IF uid # None /\ 1 \in users THEN uid ELSE None]

\* the tables add_history reads or writes
HistoryTables(uid) ==
    (IF uid # None THEN {"User"} ELSE {}) \cup {"ActionHistory"}

\* a variant of page_size_of whose default is one row per page
page_size_floor_default(data) ==
    IF Truthy(data.page_size) THEN Max(1, data.page_size[1]) ELSE 1

\* lines 138-144: the page_size and page handed to the query path
page_size_of(data) ==
    IF Truthy(data.page_size) THEN Max(1, data.page_size[1])
    ELSE DefaultPageSize

\* a variant of page_of that turns the 1-indexed page into a 0-indexed one
page_of_zero_indexed(data) ==
    IF Truthy(data.page) THEN Some(Max(1, data.page[1] - 1)) ELSE None

page_of(data) ==
    IF Truthy(data.page) THEN Some(Max(1, data.page[1])) ELSE None

\* lines 134-136: an empty groups list becomes None
groups_of(data) ==
    IF Len(Get(data.groups, <<>>)) = 0 THEN None
    ELSE Some(Get(data.groups, <<>>))

\* lines 128-144: the local variables of post
LocalsOf(data) ==
    [dataset |-> data.dataset,
     dimensions |-> data.dimensions,
     filters |-> Get(data.filters, <<>>),
     exclude |-> Get(data.exclude, <<>>),
     search_key |-> data.search_key,
     mode |-> data.mode,
     groups |-> groups_of(data),
     page_size |-> page_size_of(data),
     page |-> page_of(data)]

\* a variant of FastPath that a mode hint switches off
FastPathUnlessMode(a) ==
    /\ Len(a.filters) = 0
    /\ Len(a.exclude) = 0
    /\ Len(a.dimensions) = 1
    /\ is_categorical(a.dimensions[1])
    /\ a.mode = None

\* a variant of FastPath that does not ask whether the dimension is
\* categorical
FastPathAnyKind(a) ==
    /\ Len(a.filters) = 0
    /\ Len(a.exclude) = 0
    /\ Len(a.dimensions) = 1

\* lines 146-147: the condition of the precomputed-distribution branch
FastPath(a) ==
    /\ Len(a.filters) = 0
    /\ Len(a.exclude) = 0
    /\ Len(a.dimensions) = 1
    /\ is_categorical(a.dimensions[1])

\* lines 148-156: the one query the handler runs, with what it was handed
CallOf(a) ==
    IF FastPath(a)
    THEN [path |-> "get_precalc_distribution",
          dimensions |-> <<a.dimensions[1]>>, search_key |-> a.search_key,
          page |-> a.page, page_size |-> a.page_size, mode |-> a.mode,
          filters |-> <<>>, exclude |-> <<>>, groups |-> None,
          result |-> get_precalc_distribution(store, a.dataset,
                         a.dimensions[1], a.search_key, a.page, a.page_size,
                         a.mode)]
    ELSE [path |-> "generate",
          dimensions |-> a.dimensions, search_key |-> a.search_key,
          page |-> a.page, page_size |-> a.page_size, mode |-> a.mode,
          filters |-> a.filters, exclude |-> a.exclude, groups |-> a.groups,
          result |-> generate(corpus, a.dimensions, a.mode, a.dataset,
                         a.filters, a.exclude, a.page_size, a.page,
                         a.search_key, a.groups)]

\* the tables a query path reads
PathTables(path) ==
    IF path = "get_precalc_distribution"
    THEN {"PrecalcCategoricalDistribution"} ELSE {"Message"}

\* a variant of PostAddHistory that logs only a request that is valid, as
\* if add_history were called after is_valid
PostAddHistoryIfValid ==
    /\ pc = "post"
    /\ history' = IF request.valid
                  THEN Append(history, HistoryRow(user, "data-table", request))
                  ELSE history
    /\ touched' = touched \cup HistoryTables(user)
    /\ pc' = "post:is_valid"
    /\ UNCHANGED <<users, store, corpus, datasets, groups, user, request,
                   args, calls, response, session>>

\* line 122
PostAddHistory ==
    /\ pc = "post"
    /\ history' = Append(history, HistoryRow(user, "data-table", request))
    /\ touched' = touched \cup HistoryTables(user)
    /\ pc' = "post:is_valid"
    /\ UNCHANGED <<users, store, corpus, datasets, groups, user, request,
                   args, calls, response, session>>

\* a variant of PostIsValid that goes on whatever is_valid answers
PostIsValidIgnored ==
    /\ pc = "post:is_valid"
    /\ pc' = "post:locals"
    /\ UNCHANGED <<users, store, corpus, datasets, groups, history, user,
                   request, touched, args, calls, response, session>>

\* lines 124-125
PostIsValid ==
    /\ pc = "post:is_valid"
    /\ pc' = IF request.valid THEN "post:locals" ELSE "post:errors"
    /\ UNCHANGED <<users, store, corpus, datasets, groups, history, user,
                   request, touched, args, calls, response, session>>

\* lines 126-144
PostLocals ==
    /\ pc = "post:locals"
    /\ args' = Some(LocalsOf(request))
    /\ pc' = "post:query"
    /\ UNCHANGED <<users, store, corpus, datasets, groups, history, user,
                   request, touched, calls, response, session>>

\* a variant of PostQuery whose general branch is not under an else
PostQueryNoElse ==
    /\ pc = "post:query"
    /\ LET a == args[1]
           general == [path |-> "generate",
                       dimensions |-> a.dimensions,
                       search_key |-> a.search_key, page |-> a.page,
                       page_size |-> a.page_size, mode |-> a.mode,
                       filters |-> a.filters, exclude |-> a.exclude,
                       groups |-> a.groups,
                       result |-> generate(corpus, a.dimensions, a.mode,
                                      a.dataset, a.filters, a.exclude,
                                      a.page_size, a.page, a.search_key,
                                      a.groups)]
       IN /\ calls' = IF FastPath(a) THEN <<CallOf(a), general>>
                      ELSE <<general>>
          /\ touched' = touched \cup {"Message"}
                           \cup PathTables(CallOf(a).path)
    /\ pc' = "post:respond"
    /\ UNCHANGED <<users, store, corpus, datasets, groups, history, user,
                   request, args, response, session>>

\* lines 146-156
PostQuery ==
    /\ pc = "post:query"
    /\ LET call == CallOf(args[1])
       IN /\ calls' = Append(calls, call)
          /\ touched' = touched \cup PathTables(call.path)
    /\ pc' = "post:respond"
    /\ UNCHANGED <<users, store, corpus, datasets, groups, history, user,
                   request, args, response, session>>

\* lines 158-163
PostRespond ==
    /\ pc = "post:respond"
    /\ response' = Some([status |-> 200,
                         body |-> [data |-> request,
                                   result |-> calls[Len(calls)].result]])
    /\ pc' = "done"
    /\ UNCHANGED <<users, store, corpus, datasets, groups, history, user,
                   request, touched, args, calls, session>>

\* line 165
PostErrors ==
    /\ pc = "post:errors"
    /\ response' = Some([status |-> 400, body |-> [errors |-> request.errors]])
    /\ pc' = "done"
    /\ UNCHANGED <<users, store, corpus, datasets, groups, history, user,
                   request, touched, args, calls, session>>

DataTableView_post ==
    \/ PostAddHistory
    \/ PostIsValid
    \/ PostLocals
    \/ PostQuery
    \/ PostRespond
    \/ PostErrors

----------------------------------------------------------------------------
(* The requests and the stored data the handlers are run on. *)

\* the User table and the authenticated user: anonymous, or a row of it
UserTables == {{2}, {1, 2}}

TypeFilter == [dimension |-> "type", value |-> <<97>>]
FacetGroup == [id |-> 1, filters |-> <<TypeFilter>>]

OptFilters == {None, Some(<<>>), Some(<<TypeFilter>>)}
OptGroups == {None, Some(<<>>), Some(<<FacetGroup>>)}
OptInts == {None} \cup {Some(n) : n \in -1..MaxPage}
OptKeys == {None, Some(<<97>>)}
OptModes == {None, Some("cumulative")}
DimensionLists == {<<"type">>, <<"time">>, <<"type", "time">>}

\* what DataTableSerializer accepts, as its validated_data
ValidRequests ==
    [valid : {TRUE}, errors : {<<>>}, dataset : {1},
     dimensions : DimensionLists, filters : OptFilters, exclude : OptFilters,
     search_key : OptKeys, mode : OptModes, groups : OptGroups,
     page : OptInts, page_size : OptInts]

\* what DataTableSerializer rejects, with the fields it reports
InvalidRequests ==
    [valid : {FALSE}, errors : {<<"dataset">>, <<"dimensions">>},
     dataset : {1}, dimensions : {<<>>, <<"type">>}, filters : {None},
     exclude : {None}, search_key : {None}, mode : {None},
     groups : {None, Some(<<FacetGroup>>)},
     page : {None, Some(1)}, page_size : {None}]

\* a small corpus of dataset 1: two messages of type "a", one of type "b"
TableCorpus ==
    {[id |-> 1, dataset |-> 1,
      vals |-> [type |-> <<97>>, words |-> <<97, 98>>, time |-> <<1, 0>>]],
     [id |-> 2, dataset |-> 1,
      vals |-> [type |-> <<97>>, words |-> <<98>>, time |-> <<1, 1>>]],
     [id |-> 3, dataset |-> 1,
      vals |-> [type |-> <<98>>, words |-> <<98>>, time |-> <<2, 0>>]]}

\* the state before a handler is entered
Idle ==
    /\ datasets = {1}
    /\ groups = {}
    /\ history = <<>>
    /\ touched = {}
    /\ args = None
    /\ calls = <<>>
    /\ response = None
    /\ session = <<>>

\* one POST /api/table on a fixed corpus whose distribution is up to date
InitTable ==
    /\ Idle
    /\ users \in UserTables
    /\ user \in {None} \cup {Some(u) : u \in users}
    /\ corpus = TableCorpus
    /\ store = Distribution(corpus)
    /\ request \in ValidRequests \cup InvalidRequests
    /\ pc = "post"

NextTable == DataTableView_post

SpecTable == InitTable /\ [][NextTable]_vars

----------------------------------------------------------------------------
(* Properties of DataTableView.post, checked under SpecTable. *)

\* the handler has run its query for a valid request
Queried == pc \in {"post:respond", "done"} /\ request.valid

\* the request asks for grouping: a groups list that is not empty
GroupingAbsent(r) == Len(Get(r.groups, <<>>)) = 0

\* the five conditions of fast-path eligibility
Eligible(r) ==
    /\ Len(Get(r.filters, <<>>)) = 0
    /\ Len(Get(r.exclude, <<>>)) = 0
    /\ Len(r.dimensions) = 1
    /\ is_categorical(r.dimensions[1])
    /\ GroupingAbsent(r)

\* C1: for every valid request the precomputed-distribution path is taken
\* if and only if filters and excludes are empty, exactly one dimension is
\* requested, it is categorical and grouping is absent.
C1_FastPathIffEligible ==
    Queried =>
        (calls[1].path = "get_precalc_distribution" <=> Eligible(request))

\* the result a recorded call yields when its path alone is run on what
\* the call was handed
ResultOfPath(c) ==
    IF c.path = "get_precalc_distribution"
    THEN get_precalc_distribution(store, request.dataset, c.dimensions[1],
             c.search_key, c.page, c.page_size, c.mode)
    ELSE generate(corpus, c.dimensions, c.mode, request.dataset, c.filters,
             c.exclude, c.page_size, c.page, c.search_key, c.groups)

\* C2: for every valid request exactly one of the two paths is run, never
\* both and never neither, and the result in the response is the result of
\* that one path.
C2_ExactlyOnePath ==
    /\ Len(calls) <= 1
    /\ Queried =>
          /\ Len(calls) = 1
          /\ calls[1].path \in {"get_precalc_distribution", "generate"}
          /\ calls[1].result = ResultOfPath(calls[1])
    /\ (pc = "done" /\ request.valid) =>
          /\ response[1].status = 200
          /\ response[1].body.result = ResultOfPath(calls[1])

C2_Witness ==
    /\ pc = "done"
    /\ request.valid
    /\ calls[1].path = "generate"
    /\ Len(response[1].body.result.table) > 1

\* validation has failed and the handler has gone on from there
Rejected == pc \in {"post:errors", "done"} /\ ~request.valid

\* C3 as stated: a request that fails validation gets an error response,
\* no path is invoked, and nothing is read from or written to stored data
\* before the validation outcome is known.
C3_NothingTouchedBeforeValidation ==
    Rejected =>
        /\ calls = <<>>
        /\ touched = {}
        /\ history = <<>>
        /\ pc = "done" => response[1].status = 400

\* C3 amended: a request that fails validation gets the 400 response with
\* the serializer's errors and no path is invoked; the only stored data
\* touched, before and after validation, are the ActionHistory row that
\* add_history appends and the User table it reads.
C3_InvalidRunsNoQuery ==
    /\ pc = "post:is_valid" =>
          /\ touched \subseteq {"ActionHistory", "User"}
          /\ calls = <<>>
    /\ Rejected =>
          /\ calls = <<>>
          /\ args = None
          /\ touched \subseteq {"ActionHistory", "User"}
          /\ "ActionHistory" \in touched
          /\ Len(history) = 1
          /\ pc = "done" =>
                response = Some([status |-> 400,
                                 body |-> [errors |-> request.errors]])

C3_Witness ==
    /\ pc = "done"
    /\ ~request.valid
    /\ response[1].status = 400
    /\ touched = {"ActionHistory", "User"}

\* C4 as stated: when page or page_size is omitted the path is handed
\* page_size = 100 and page = 1.
C4_DefaultsAre100And1 ==
    Queried =>
        /\ request.page_size = None => calls[1].page_size = 100
        /\ request.page = None => calls[1].page = Some(1)

\* C4 amended: an omitted page_size is handed to the path as 100, and an
\* omitted page is handed to the path as None (no page), not as 1.
C4_DefaultsAre100AndNone ==
    Queried =>
        /\ request.page_size = None => calls[1].page_size = 100
        /\ request.page = None => calls[1].page = None

C4_Witness ==
    /\ pc = "done"
    /\ request.valid
    /\ request.page_size = None
    /\ request.page = None
    /\ calls[1].page_size = 100

\* C5: for every integer page_size and page supplied, 0 and negative
\* values included, the path is handed max(1, supplied value).
C5_SuppliedValuesFloored ==
    Queried =>
        /\ request.page_size # None =>
              calls[1].page_size = Max(1, request.page_size[1])
        /\ request.page # None =>
              calls[1].page = Some(Max(1, request.page[1]))

\* C6: two valid requests that differ only in the mode hint are served by
\* the same path.
C6_ModeDoesNotChoosePath ==
    Queried =>
        \A m \in OptModes :
            FastPath(LocalsOf([request EXCEPT !.mode = m]))
                <=> calls[1].path = "get_precalc_distribution"

C6_Witness ==
    /\ pc = "done"
    /\ request.valid
    /\ request.mode # None
    /\ calls[1].path = "get_precalc_distribution"

----------------------------------------------------------------------------
(* The fast path against the general path, on varying corpora. *)

\* levels of the corpora: "A", "ab", "b"
CorpusLevels == {<<65>>, <<97, 98>>, <<98>>}

\* the corpus of dataset 1 with cnt[l] messages of level l, the k-th of
\* them sent on day k
CorpusOf(cnt) ==
    {[id |-> <<l, k>>, dataset |-> 1,
      vals |-> [type |-> l, words |-> l, time |-> <<k, 0>>]] :
        l \in {x \in CorpusLevels : cnt[x] > 0}, k \in 1..MaxCount}
    \ {m \in [id : CorpusLevels \X (1..MaxCount), dataset : {1},
              vals : [type : CorpusLevels, words : CorpusLevels,
                      time : {<<k, 0>> : k \in 1..MaxCount}]] :
          m.id[2] > cnt[m.id[1]]}

Corpora == {CorpusOf(cnt) : cnt \in [CorpusLevels -> 0..MaxCount]}

\* the distribution store holds the distribution of the corpus as it is
UpToDate == store = Distribution(corpus)

\* the stores the enrichment process may have left: the distribution of
\* the corpus, or of the corpus before its last message arrived
StoresOf(msgs) ==
    {Distribution(msgs)} \cup {Distribution(msgs \ {m}) : m \in msgs}

EquivRequests ==
    [valid : {TRUE}, errors : {<<>>}, dataset : {1},
     dimensions : {<<"type">>, <<"time">>}, filters : {None},
     exclude : {Some(<<>>)}, search_key : OptKeys, mode : {None},
     groups : {None}, page : OptInts, page_size : OptInts]

InitEquiv ==
    /\ Idle
    /\ users = {1, 2}
    /\ user = Some(1)
    /\ corpus \in Corpora
    /\ store \in StoresOf(corpus)
    /\ request \in EquivRequests \cup InvalidRequests
    /\ pc = "post"

SpecEquiv == InitEquiv /\ [][NextTable]_vars

\* the table the general path returns when handed what the call was handed
GeneralTable(c) ==
    generate(corpus, c.dimensions, c.mode, request.dataset, <<>>, <<>>,
             c.page_size, c.page, c.search_key, None).table

SameCells(t, u) == Len(t) = Len(u) /\ Range(t) = Range(u)

FitsOnePage(c) ==
    Cardinality({r \in store : /\ r.dataset_id = request.dataset
                               /\ r.dimension_key = c.dimensions[1]})
        <= c.page_size

----------------------------------------------------------------------------
(* A client that reads a table page by page: it posts the same request   *)
(* with page = 1, 2, ... and concatenates the tables of the responses.   *)

PagingRequests ==
    [valid : {TRUE}, errors : {<<>>}, dataset : {1},
     dimensions : {<<"type">>, <<"type", "time">>},
     filters : {None, Some(<<TypeFilter>>)}, exclude : {None},
     search_key : OptKeys, mode : {None},
     groups : {None, Some(<<FacetGroup>>)},
     page : {Some(1)}, page_size : OptInts]

InitPaging ==
    /\ datasets = {1}
    /\ groups = {}
    /\ history = <<>>
    /\ touched = {}
    /\ args = None
    /\ calls = <<>>
    /\ response = None
    /\ session = [acc |-> <<>>, pages |-> 0]
    /\ users = {1, 2}
    /\ user = None
    /\ corpus \in Corpora
    /\ store = Distribution(corpus)
    /\ request \in PagingRequests \cup InvalidRequests
    /\ pc = "post"

\* the unpaginated table of the request: what it yields with neither page
\* nor page_size
FullTable ==
    CallOf(LocalsOf([request EXCEPT !.page = None,
                                    !.page_size = None])).result.table

\* the number of pages of the handed page_size that cover the full table
PagesNeeded ==
    LET n == Len(FullTable)
        size == page_size_of(request)
    IN (n + size - 1) \div size

\* the client appends the table of the response to what it has
Collect ==
    /\ pc = "done"
    /\ request.valid
    /\ session' = [acc |-> session.acc \o response[1].body.result.table,
                   pages |-> session.pages + 1]
    /\ pc' = "collected"
    /\ UNCHANGED <<users, store, corpus, datasets, groups, history, user,
                   request, touched, args, calls, response>>

\* the client posts the request again for the next page
NextPage ==
    /\ pc = "collected"
    /\ session.pages < PagesNeeded
    /\ request' = [request EXCEPT !.page = Some(session.pages + 1)]
    /\ pc' = "post"
    /\ touched' = {}
    /\ args' = None
    /\ calls' = <<>>
    /\ response' = None
    /\ UNCHANGED <<users, store, corpus, datasets, groups, history, user,
                   session>>

NextPaging == DataTableView_post \/ Collect \/ NextPage

SpecPaging == InitPaging /\ [][NextPaging]_vars

\* C8: for a fixed request and page_size, the tables of page = 1..k, k the
\* number of pages that cover the full cell set, concatenate to the
\* unpaginated table: page p holds the cells from (p-1)*page_size on, no
\* cell is duplicated and none is missing, on the fast path and on the
\* general path.
C8_PagesConcatenateToFullTable ==
    pc = "collected" =>
        /\ session.acc = SubSeq(FullTable, 1,
               Min(Len(FullTable), session.pages * page_size_of(request)))
        /\ Cardinality(Range(session.acc)) = Len(session.acc)
        /\ session.pages >= PagesNeeded => session.acc = FullTable

C8_Witness ==
    /\ pc = "collected"
    /\ session.pages = PagesNeeded
    /\ session.pages > 2
    /\ calls[1].path = "get_precalc_distribution"
    /\ session.acc = FullTable

C8_WitnessGeneral ==
    /\ pc = "collected"
    /\ session.pages = PagesNeeded
    /\ session.pages > 2
    /\ calls[1].path = "generate"
    /\ session.acc = FullTable

----------------------------------------------------------------------------
(* KeywordView.get. *)

\* reads of one request the client compares
MaxReads == 2

\* every sequence that lists each element of S once
RECURSIVE Orderings(_)
Orderings(S) ==
    IF S = {} THEN {<<>>}
    ELSE UNION {{<<x>> \o t : t \in Orderings(S \ {x})} : x \in S}

\* order_by('-count'): the orders the database may return the rows in;
\* rows of equal count come in any order
OrderByCountDesc(rows) ==
    {o \in Orderings(rows) :
        \A i, j \in 1..Len(o) : i < j => o[i].count >= o[j].count}

\* the index of the last space of q, 0 when it has none
LastSpace(q) ==
    LET at == {i \in 1..Len(q) : q[i] = 32}
    IN IF at = {} THEN 0 ELSE CHOOSE i \in at : \A j \in at : j <= i

\* lines 489-491: strings = q.split(' ')
keyword_of(q) == SubSeq(q, LastSpace(q) + 1, Len(q))
prefix_of(q) == SubSeq(q, 1, LastSpace(q) - 1) \o <<32>>

\* str is a decimal number
IsDigits(str) == str # <<>> /\ \A i \in 1..Len(str) : str[i] \in 48..57

\* int(str) of a decimal number
RECURSIVE IntOf(_)
IntOf(str) ==
    IF str = <<>> THEN 0
    ELSE IntOf(SubSeq(str, 1, Len(str) - 1)) * 10 + (str[Len(str)] - 48)

\* a query parameter is present and not the empty string
Given(param) == param # None /\ param[1] # <<>>

\* lines 492-494: the rows the prefix lookup selects
KeywordRows(rows, dataset_id, q) ==
    {r \in rows : /\ IsDigits(dataset_id) /\ r.dataset_id = IntOf(dataset_id)
                  /\ r.dimension_key = "words"
                  /\ IStartsWith(r.level, keyword_of(q))}

\* lines 496-500: the keywords of the response for rows in the order o
KeywordsOf(o, q) ==
    [i \in 1..Min(KeywordLimit, Len(o)) |->
        [text |-> prefix_of(q) \o o[i].level]]

\* line 482: the distinct texts of the TweetWord rows of the dataset, the
\* words of its messages
TweetWordTexts(msgs, dataset_id) ==
    {m.vals.words : m \in {n \in msgs : /\ IsDigits(dataset_id)
                                         /\ n.dataset = IntOf(dataset_id)}}

\* lines 473-505
KeywordView_get ==
    /\ pc = "keyword"
    /\ history' = Append(history,
                     HistoryRow(user, "auto-complete:get-list", request))
    /\ IF Given(request.dataset)
       THEN IF request.q = None
            THEN /\ \E o \in Orderings(TweetWordTexts(corpus, request.dataset[1])) :
                        response' = Some([status |-> 200,
                            body |-> [dataset |-> request.dataset[1],
                                      keywords |->
                                        [i \in 1..Min(KeywordLimit, Len(o)) |->
                                            [text |-> o[i]]]]])
                 /\ touched' = HistoryTables(user) \cup {"TweetWord"}
            ELSE /\ \E o \in OrderByCountDesc(
                             KeywordRows(store, request.dataset[1], request.q[1])) :
                        response' = Some([status |-> 200,
                            body |-> [dataset |-> request.dataset[1],
                                      q |-> request.q[1],
                                      keywords |-> KeywordsOf(o, request.q[1])]])
                 /\ touched' = HistoryTables(user)
                                 \cup {"PrecalcCategoricalDistribution"}
       ELSE /\ response' = Some([status |-> 400, body |-> [empty |-> TRUE]])
            /\ touched' = HistoryTables(user)
    /\ pc' = "done"
    /\ UNCHANGED <<users, store, corpus, datasets, groups, user, request,
                   args, calls, session>>

\* the client keeps the response and sends the same request again
ReadAgain ==
    /\ pc = "done"
    /\ Len(session) < MaxReads - 1
    /\ session' = Append(session, response[1])
    /\ response' = None
    /\ touched' = {}
    /\ pc' = "keyword"
    /\ UNCHANGED <<users, store, corpus, datasets, groups, history, user,
                   request, args, calls>>

\* query strings: dataset "1" or "2", q "", "a", "b a"
KeywordRequests ==
    [dataset : {None, Some(<<49>>), Some(<<50>>)},
     q : {None, Some(<<>>), Some(<<97>>), Some(<<98, 32, 97>>)}]

InitKeyword ==
    /\ Idle
    /\ users = {1, 2}
    /\ user \in {None, Some(2)}
    /\ corpus \in Corpora
    /\ store = Distribution(corpus)
    /\ request \in KeywordRequests
    /\ pc = "keyword"

NextKeyword == KeywordView_get \/ ReadAgain

SpecKeyword == InitKeyword /\ [][NextKeyword]_vars

\* C10: every ranked read of the distribution store returns its entries by
\* descending count with ties broken by the value's natural order, so two
\* reads with identical inputs against an unchanged store return the same
\* sequence, also when counts are equal and the result is truncated.
C10_RankedReadsAreStable ==
    (pc = "done" /\ Given(request.dataset) /\ request.q # None) =>
        /\ response[1].body.keywords =
              KeywordsOf(Ranked(KeywordRows(store, request.dataset[1],
                                            request.q[1])), request.q[1])
        /\ session # <<>> => response[1] = session[Len(session)]

----------------------------------------------------------------------------
(* DatasetView.get and GroupView. *)

\* rows of the Group table
MaxGroups == 2
\* rows of ActionHistory
MaxHistory == 3

\* an exception no handler catches: the request ends as a server error
Unhandled(exc) == [status |-> 500, body |-> [exception |-> exc]]

\* a served request leaves the handler idle with its response
Served(resp, tables) ==
    /\ response' = Some(resp)
    /\ touched' = tables
    /\ pc' = "idle"
    /\ args' = None
    /\ calls' = <<>>

\* lines 563-573: the response of DatasetView.get to the query string id
DatasetResponse(id) ==
    IF Given(id)
    THEN IF ~IsDigits(id[1]) THEN Unhandled("ValueError")
         ELSE IF IntOf(id[1]) \in datasets
              THEN [status |-> 200, body |-> [dataset |-> IntOf(id[1])]]
              ELSE [status |-> 400, body |-> [text |-> "Dataset not exist"]]
    ELSE [status |-> 400, body |-> [text |-> "Please specify dataset id"]]

DatasetView_get(params) ==
    /\ pc = "idle"
    /\ request' = [view |-> "dataset", method |-> "get", params |-> params]
    /\ Served(DatasetResponse(params.id),
              IF Given(params.id) /\ IsDigits(params.id[1])
              THEN {"Dataset"} ELSE {})
    /\ UNCHANGED <<users, store, corpus, datasets, groups, history, user,
                   session>>

\* Group.objects.get(id=...): the rows with that id
GroupsWithId(n) == {g \in groups : g.id = n}

\* the authenticated user as the owner, lines 382-383 and 405-406
OwnerOf(uid) == IF uid # None /\ 1 \in users THEN uid ELSE None

\* input.save(): the row GroupSerializer creates; order and owner take the
\* defaults of migration 0006
NewGroup(data) ==
    [id |-> Cardinality(groups) + 1, dataset_id |-> data.dataset,
     name |-> data.name, keywords |-> data.keywords, include_types |-> {},
     order |-> 0, owner |-> None, is_search_record |-> FALSE,
     deleted |-> FALSE, created_at |-> Cardinality(groups) + 1]

\* lines 382-390: the row as the second save leaves it
OwnedGroup(g, data, uid) ==
    IF OwnerOf(uid) = None THEN g
    ELSE IF data.is_search_record \in {None, Some(FALSE)}
         THEN [g EXCEPT !.owner = OwnerOf(uid),
                        !.order = Cardinality({o \in groups :
                                      /\ o.owner = OwnerOf(uid)
                                      /\ ~o.is_search_record}) + 1]
         ELSE [g EXCEPT !.owner = OwnerOf(uid), !.is_search_record = TRUE,
                        !.order = 0]

\* lines 375-397
GroupView_post(data) ==
    /\ pc = "idle"
    /\ Len(history) < MaxHistory
    /\ Cardinality(groups) < MaxGroups
    /\ request' = [view |-> "group", method |-> "post", params |-> data]
    /\ history' = Append(history, HistoryRow(user, "group:create", data))
    /\ IF data.valid
       THEN LET group == OwnedGroup(NewGroup(data), data, user)
            IN /\ groups' = groups \cup {group}
               /\ Served([status |-> 200, body |-> [group |-> group]],
                         HistoryTables(user) \cup {"Group"})
       ELSE /\ groups' = groups
            /\ Served([status |-> 400, body |-> [errors |-> data.errors]],
                      HistoryTables(user))
    /\ UNCHANGED <<users, store, corpus, datasets, user, session>>

\* order_by('order', 'created_at')
GroupBefore(a, b) ==
    \/ a.order < b.order
    \/ a.order = b.order /\ a.created_at < b.created_at

RECURSIVE SortGroups(_)
SortGroups(rows) ==
    IF rows = {} THEN <<>>
    ELSE LET g == CHOOSE x \in rows : \A y \in rows \ {x} : GroupBefore(x, y)
         IN <<g>> \o SortGroups(rows \ {g})

\* the list without its deleted = False filter (mutant)
GroupListWithDeleted(dataset_id, uid) ==
    {g \in groups : /\ g.dataset_id = dataset_id
                    /\ OwnerOf(uid) # None => g.owner = OwnerOf(uid)}

\* lines 402-408: the groups of the dataset-scoped list
GroupList(dataset_id, uid) ==
    {g \in groups : /\ g.dataset_id = dataset_id
                    /\ ~g.deleted
                    /\ OwnerOf(uid) # None => g.owner = OwnerOf(uid)}

\* lines 399-420
GroupView_get(params) ==
    /\ pc = "idle"
    /\ Len(history) < MaxHistory
    /\ request' = [view |-> "group", method |-> "get", params |-> params]
    /\ IF Given(params.dataset)
       THEN /\ history' = Append(history,
                              HistoryRow(user, "group:get-list", params))
            /\ IF IsDigits(params.dataset[1])
               THEN Served([status |-> 200,
                            body |-> [groups |-> SortGroups(GroupList(
                                         IntOf(params.dataset[1]), user))]],
                           HistoryTables(user) \cup {"Group"})
               ELSE Served(Unhandled("ValueError"), HistoryTables(user))
       ELSE IF Given(params.group_id)
       THEN /\ history' = Append(history,
                              HistoryRow(user, "group:get-single-group", <<>>))
            /\ IF ~IsDigits(params.group_id[1])
               THEN Served(Unhandled("ValueError"), HistoryTables(user))
               ELSE IF GroupsWithId(IntOf(params.group_id[1])) = {}
               THEN Served(Unhandled("DoesNotExist"),
                           HistoryTables(user) \cup {"Group"})
               ELSE \E g \in GroupsWithId(IntOf(params.group_id[1])) :
                        Served([status |-> 200, body |-> [group |-> g]],
                               HistoryTables(user) \cup {"Group"})
       ELSE /\ history' = Append(history,
                              HistoryRow(user, "group:get-all-groups", <<>>))
            /\ \E o \in Orderings(groups) :
                   Served([status |-> 200, body |-> [groups |-> o]],
                          HistoryTables(user) \cup {"Group"})
    /\ UNCHANGED <<users, store, corpus, datasets, groups, user, session>>

\* the rows of the MessageType table
MessageTypes == {"tweet"}

\* lines 428-433: the row after the name and keywords updates
Renamed(g, data) ==
    [g EXCEPT !.name = Get(data.name, g.name),
              !.keywords = Get(data.keywords, g.keywords)]

\* lines 422-445
GroupView_put(data) ==
    /\ pc = "idle"
    /\ Len(history) < MaxHistory
    /\ request' = [view |-> "group", method |-> "put", params |-> data]
    /\ history' = Append(history, HistoryRow(user, "group:update", data))
    /\ IF ~data.valid
       THEN /\ groups' = groups
            /\ Served([status |-> 400, body |-> [errors |-> data.errors]],
                      HistoryTables(user))
       ELSE IF data.id = None
       THEN /\ groups' = groups
            /\ Served(Unhandled("KeyError"), HistoryTables(user))
       ELSE IF GroupsWithId(data.id[1]) = {}
       THEN /\ groups' = groups
            /\ Served(Unhandled("DoesNotExist"),
                      HistoryTables(user) \cup {"Group"})
       ELSE \E g \in GroupsWithId(data.id[1]) :
                IF data.types_list = None
                THEN /\ groups' = (groups \ {g}) \cup {Renamed(g, data)}
                     /\ Served([status |-> 200,
                                body |-> [group |-> Renamed(g, data)]],
                               HistoryTables(user) \cup {"Group"})
                ELSE IF Range(data.types_list[1]) \subseteq MessageTypes
                THEN LET typed == [Renamed(g, data) EXCEPT
                                      !.include_types = Range(data.types_list[1])]
                     IN /\ groups' = (groups \ {g}) \cup {typed}
                        /\ Served([status |-> 200, body |-> [group |-> typed]],
                                  HistoryTables(user)
                                      \cup {"Group", "MessageType"})
                ELSE /\ groups' = (groups \ {g}) \cup {Renamed(g, data)}
                     /\ Served(Unhandled("DoesNotExist"),
                               HistoryTables(user)
                                   \cup {"Group", "MessageType"})
    /\ UNCHANGED <<users, store, corpus, datasets, user, session>>

\* lines 447-454
GroupView_delete(params) ==
    /\ pc = "idle"
    /\ Len(history) < MaxHistory
    /\ request' = [view |-> "group", method |-> "delete", params |-> params]
    /\ history' = Append(history, HistoryRow(user, "group:delete", params))
    /\ IF ~Given(params.id)
       THEN /\ groups' = groups
            /\ Served(Unhandled("AssertionError"), HistoryTables(user))
       ELSE IF ~IsDigits(params.id[1])
       THEN /\ groups' = groups
            /\ Served(Unhandled("ValueError"), HistoryTables(user))
       ELSE IF GroupsWithId(IntOf(params.id[1])) = {}
       THEN /\ groups' = groups
            /\ Served(Unhandled("DoesNotExist"),
                      HistoryTables(user) \cup {"Group"})
       ELSE \E g \in GroupsWithId(IntOf(params.id[1])) :
                /\ groups' = (groups \ {g}) \cup {[g EXCEPT !.deleted = TRUE]}
                /\ Served([status |-> 204, body |-> [empty |-> TRUE]],
                          HistoryTables(user) \cup {"Group"})
    /\ UNCHANGED <<users, store, corpus, datasets, user, session>>

\* query strings "", "1", "2", "x", or none
IdParams == {None, Some(<<>>), Some(<<49>>), Some(<<50>>), Some(<<120>>)}

GroupPosts ==
    [valid : {TRUE}, errors : {<<>>}, dataset : {1}, name : {"g"},
     keywords : {"k"}, is_search_record : {None, Some(TRUE)}]
    \cup [valid : {FALSE}, errors : {<<"dataset">>}, dataset : {1},
          name : {"g"}, keywords : {"k"}, is_search_record : {None}]

GroupGets ==
    [dataset : {None}, group_id : IdParams \ {Some(<<>>)}]
    \cup [dataset : {Some(<<49>>)}, group_id : {None}]

GroupPuts ==
    [valid : {TRUE}, errors : {<<>>}, id : {None, Some(1), Some(2)},
     name : {None, Some("n")}, keywords : {None}, types_list : {None}]
    \cup [valid : {TRUE}, errors : {<<>>}, id : {Some(1)}, name : {Some("n")},
          keywords : {Some("w")},
          types_list : {Some(<<"tweet">>), Some(<<"video">>)}]
    \cup [valid : {FALSE}, errors : {<<"name">>}, id : {Some(1)},
          name : {None}, keywords : {None}, types_list : {None}]

InitRefs ==
    /\ Idle
    /\ users = {1, 2}
    /\ user \in {None, Some(1)}
    /\ corpus = TableCorpus
    /\ store = Distribution(corpus)
    /\ request = [view |-> "none", method |-> "none", params |-> <<>>]
    /\ pc = "idle"

NextRefs ==
    \/ \E id \in IdParams : DatasetView_get([id |-> id])
    \/ \E data \in GroupPosts : GroupView_post(data)
    \/ \E params \in GroupGets : GroupView_get(params)
    \/ \E data \in GroupPuts : GroupView_put(data)
    \/ \E id \in IdParams : GroupView_delete([id |-> id])

SpecRefs == InitRefs /\ [][NextRefs]_vars

\* the request names a dataset or a group that does not exist
UnknownReference ==
    \/ /\ request.view = "dataset"
       /\ Given(request.params.id) /\ IsDigits(request.params.id[1])
       /\ IntOf(request.params.id[1]) \notin datasets
    \/ /\ request.view = "group" /\ request.method = "get"
       /\ ~Given(request.params.dataset)
       /\ Given(request.params.group_id)
       /\ IsDigits(request.params.group_id[1])
       /\ GroupsWithId(IntOf(request.params.group_id[1])) = {}
    \/ /\ request.view = "group" /\ request.method = "put"
       /\ request.params.valid /\ request.params.id # None
       /\ GroupsWithId(request.params.id[1]) = {}
    \/ /\ request.view = "group" /\ request.method = "delete"
       /\ Given(request.params.id) /\ IsDigits(request.params.id[1])
       /\ GroupsWithId(IntOf(request.params.id[1])) = {}

\* the responses the views give to a missing or malformed field
ValidationResponses ==
    {DatasetResponse(None), Unhandled("ValueError"), Unhandled("KeyError"),
     Unhandled("AssertionError")}
    \cup {[status |-> 400, body |-> [errors |-> e]] :
             e \in {<<"dataset">>, <<"name">>}}

\* C9: a reference to a dataset or group that does not exist is answered
\* with a not-found error that is distinguishable from a validation error,
\* never with the same outcome and never with an unhandled failure.
C9_UnknownReferenceIsNotFound ==
    (response # None /\ UnknownReference) =>
        /\ response[1].status \in {400, 404}
        /\ response[1] \notin ValidationResponses

----------------------------------------------------------------------------
(* A client that posts one table request after another. *)

\* requests of one session
MaxPosts == 2

SessionRequests ==
    [valid : {TRUE}, errors : {<<>>}, dataset : {1},
     dimensions : {<<"type">>, <<"type", "time">>},
     filters : {None, Some(<<TypeFilter>>)}, exclude : {None},
     search_key : {None}, mode : {None},
     groups : {None, Some(<<FacetGroup>>)},
     page : {None, Some(2)}, page_size : {Some(1)}]
    \cup [valid : {FALSE}, errors : {<<"dimensions">>}, dataset : {1},
          dimensions : {<<>>}, filters : {None}, exclude : {None},
          search_key : {None}, mode : {None}, groups : {None},
          page : {None}, page_size : {None, Some(1)}]

InitSession ==
    /\ Idle
    /\ users = {1, 2}
    /\ user \in {None, Some(1)}
    /\ corpus = TableCorpus
    /\ store \in StoresOf(corpus)
    /\ request \in SessionRequests
    /\ pc = "post"

\* the client keeps the response and posts its next request
NextRequest ==
    /\ pc = "done"
    /\ Len(session) < MaxPosts - 1
    /\ session' = Append(session, [request |-> request,
                                   response |-> response[1]])
    /\ request' \in SessionRequests
    /\ pc' = "post"
    /\ touched' = {}
    /\ args' = None
    /\ calls' = <<>>
    /\ response' = None
    /\ UNCHANGED <<users, store, corpus, datasets, groups, history, user>>

NextSession == DataTableView_post \/ NextRequest

SpecSession == InitSession /\ [][NextSession]_vars

\* C11: a POST /api/table leaves datasets, messages, precomputed
\* distributions and groups (and users) unchanged; its only persistent
\* effect is one appended ActionHistory row of type 'data-table' holding the
\* raw request, whether or not the request is valid; and the response to a
\* request is the response the same request got earlier in the session,
\* whatever was posted in between.
C11_OnlyEffectIsOneHistoryRow ==
    [][/\ UNCHANGED <<users, store, corpus, datasets, groups>>
       /\ Len(history') <= Len(history) + 1
       /\ SubSeq(history', 1, Len(history)) = history
       /\ (pc' = "done" /\ pc # "done") =>
             /\ Len(history') = Len(session') + 1
             /\ history'[Len(history')] =
                   [type |-> "data-table", contents |-> JsonDumps(request'),
                    from_server |-> TRUE, owner |-> OwnerOf(user')]
             /\ \A i \in 1..Len(session') :
                   /\ history'[i].contents = JsonDumps(session'[i].request)
                   /\ session'[i].request = request' =>
                         session'[i].response = response'[1]]_vars

C11_Witness ==
    /\ pc = "done"
    /\ Len(session) = 1
    /\ Len(history) = 2
    /\ session[1].request = request
    /\ request.valid
    /\ session[1].response = response[1]
    /\ Len(response[1].body.result.table) = 1

C11_WitnessInvalid ==
    /\ pc = "done"
    /\ Len(session) = 1
    /\ Len(history) = 2
    /\ ~request.valid
    /\ session[1].request.valid

----------------------------------------------------------------------------
(* Concurrent GroupView.post requests of one user: each request is served *)
(* by its own worker, and the workers' database statements interleave.    *)
(* Here pc, request, args and response hold one value per worker; args is *)
(* the worker's in-memory group object.                                   *)

\* concurrent requests
MaxProcs == 2

Procs == 1..MaxProcs

InitRace ==
    /\ datasets = {1}
    /\ groups = {}
    /\ history = <<>>
    /\ touched = {}
    /\ calls = <<>>
    /\ session = <<>>
    /\ users = {1, 2}
    /\ user \in {None, Some(1)}
    /\ corpus = TableCorpus
    /\ store = Distribution(corpus)
    /\ request \in [Procs -> GroupPosts]
    /\ pc = [p \in Procs |-> "post"]
    /\ args = [p \in Procs |-> None]
    /\ response = [p \in Procs |-> None]

\* line 376
RaceAddHistory(p) ==
    /\ pc[p] = "post"
    /\ history' = Append(history, HistoryRow(user, "group:create", request[p]))
    /\ touched' = touched \cup HistoryTables(user)
    /\ pc' = [pc EXCEPT ![p] = "post:is_valid"]
    /\ UNCHANGED <<users, store, corpus, datasets, groups, user, request,
                   args, calls, response, session>>

\* lines 377-380: is_valid and input.save(), which inserts the row
RaceSave(p) ==
    /\ pc[p] = "post:is_valid"
    /\ IF request[p].valid
       THEN /\ groups' = groups \cup {NewGroup(request[p])}
            /\ args' = [args EXCEPT ![p] = Some(NewGroup(request[p]))]
            /\ touched' = touched \cup {"Group"}
            /\ pc' = [pc EXCEPT ![p] = "post:owner"]
       ELSE /\ UNCHANGED <<groups, args, touched>>
            /\ pc' = [pc EXCEPT ![p] = "post:errors"]
    /\ UNCHANGED <<users, store, corpus, datasets, history, user, request,
                   calls, response, session>>

\* lines 381-389: the owner, and the order from the count read now
RaceOrder(p) ==
    /\ pc[p] = "post:owner"
    /\ args' = [args EXCEPT
                   ![p] = Some(OwnedGroup(args[p][1], request[p], user))]
    /\ pc' = [pc EXCEPT ![p] = IF OwnerOf(user) = None THEN "post:respond"
                               ELSE "post:save"]
    /\ UNCHANGED <<users, store, corpus, datasets, groups, history, user,
                   request, touched, calls, response, session>>

\* line 390: group.save() writes the object over its row
RaceSaveOrder(p) ==
    /\ pc[p] = "post:save"
    /\ groups' = {g \in groups : g.id # args[p][1].id} \cup {args[p][1]}
    /\ pc' = [pc EXCEPT ![p] = "post:respond"]
    /\ UNCHANGED <<users, store, corpus, datasets, history, user, request,
                   touched, args, calls, response, session>>

\* lines 394-395
RaceRespond(p) ==
    /\ pc[p] = "post:respond"
    /\ response' = [response EXCEPT
                       ![p] = Some([status |-> 200,
                                    body |-> [group |-> args[p][1]]])]
    /\ pc' = [pc EXCEPT ![p] = "done"]
    /\ UNCHANGED <<users, store, corpus, datasets, groups, history, user,
                   request, touched, args, calls, session>>

\* line 397
RaceErrors(p) ==
    /\ pc[p] = "post:errors"
    /\ response' = [response EXCEPT
                       ![p] = Some([status |-> 400,
                                    body |-> [errors |-> request[p].errors]])]
    /\ pc' = [pc EXCEPT ![p] = "done"]
    /\ UNCHANGED <<users, store, corpus, datasets, groups, history, user,
                   request, touched, args, calls, session>>

NextRace ==
    \E p \in Procs :
        \/ RaceAddHistory(p)
        \/ RaceSave(p)
        \/ RaceOrder(p)
        \/ RaceSaveOrder(p)
        \/ RaceRespond(p)
        \/ RaceErrors(p)

SpecRace == InitRace /\ [][NextRace]_vars

\* C12: in every reachable state, concurrent posts of one owner included,
\* no two groups of the same owner with is_search_record = False have the
\* same order, and a search-record group has order 0.
C12_OrdersAreUnique ==
    /\ \A g, h \in groups :
          (/\ g # h
           /\ g.owner # None
           /\ g.owner = h.owner
           /\ ~g.is_search_record
           /\ ~h.is_search_record) => g.order # h.order
    /\ \A g \in groups : g.is_search_record => g.order = 0

----------------------------------------------------------------------------
(* The life of a group: requests to GroupView served one after another.   *)

\* query strings "1", "2"
GroupIds == {Some(<<49>>), Some(<<50>>)}

LifePosts == {d \in GroupPosts : d.is_search_record = None}

LifeGets == {q \in GroupGets : q.group_id \in {None, Some(<<49>>)}}

LifePuts == {d \in GroupPuts : d.id = Some(1)}

InitGroups == InitRefs

NextGroups ==
    \/ \E data \in LifePosts : GroupView_post(data)
    \/ \E params \in LifeGets : GroupView_get(params)
    \/ \E data \in LifePuts : GroupView_put(data)
    \/ \E id \in GroupIds : GroupView_delete([id |-> id])

SpecGroups == InitGroups /\ [][NextGroups]_vars

\* the ids of the groups marked deleted
DeletedIds(rows) == {g.id : g \in {x \in rows : x.deleted}}

\* C13: deletion is a monotonic soft delete: no request to GroupView
\* removes a group record or sets deleted back to False on it, a delete of
\* a group that is already deleted leaves the groups as they are, and a
\* deleted group is never in the list GroupView.get returns for a dataset.
C13_DeleteIsMonotonic ==
    [][/\ \A g \in groups : \E h \in groups' :
              h.id = g.id /\ (g.deleted => h.deleted)
       /\ (/\ request'.method = "delete"
           /\ IntOf(request'.params.id[1]) \in DeletedIds(groups))
              => /\ groups' = groups
                 /\ response'[1].status = 204
       /\ (request'.method = "get" /\ Given(request'.params.dataset))
              => /\ response'[1].status = 200
                 /\ \A i \in 1..Len(response'[1].body.groups) :
                        response'[1].body.groups[i].id
                            \notin DeletedIds(groups')]_vars

\* a deleted group of the asking user's dataset is left out of the list
C13_Witness ==
    /\ pc = "idle"
    /\ request.method = "get"
    /\ Given(request.params.dataset)
    /\ response[1].status = 200
    /\ response[1].body.groups = <<>>
    /\ \E g \in groups : g.deleted /\ g.dataset_id = 1

\* a delete repeated on a deleted group
C13_WitnessRepeat ==
    /\ pc = "idle"
    /\ Len(history) = 3
    /\ request.method = "delete"
    /\ history[2].type = "group:delete"
    /\ history[2].contents = history[3].contents
    /\ response[1].status = 204
    /\ \E g \in groups : g.deleted

\* a put on a deleted group
C13_WitnessPut ==
    /\ pc = "idle"
    /\ Len(history) = 3
    /\ request.method = "put"
    /\ history[2].type = "group:delete"
    /\ response[1].status = 200
    /\ \E g \in groups : g.deleted /\ g.name = "n"

====
